---- MODULE Spec2Model ----
(***************************************************************************)
(* Model of d2go/config/config.py: the config tree helpers                 *)
(* (get_cfg_diff_table, CfgNode.get_field_or_none, as_flattened_dict),     *)
(* the rerouted load-with-base protocol and auto_scale_world_size.         *)
(*                                                                         *)
(* Strings are sequences of character codes, so that sorted(), split(".")  *)
(* and "{}.{}".format() are computed, and the order of dotted key paths    *)
(* is the order Python gives them.                                         *)
(***************************************************************************)
EXTENDS Integers, Sequences, FiniteSets, TLC

VARIABLES
    pc,              \* position of the running call
    cfg,             \* the config object: [immutable, node]
    original_cfg,    \* auto_scale_world_size: the snapshot clone / diff: 2nd tree
    new_world_size,  \* auto_scale_world_size: argument N
    frozen,          \* auto_scale_world_size: local `frozen`
    methods,         \* auto_scale_world_size: the list the for loop iterates
    idx,             \* auto_scale_world_size: position in that list
    calls,           \* log of strategy invocations <<name, N>>
    ref_seen,        \* log: REFERENCE_WORLD_SIZE after each strategy invocation
    err,             \* exception the call ended with, or "none"
    ret,             \* value returned by the call
    table,           \* diff table built by get_cfg_diff_table: [made, rows]
    entry,           \* cfg as it was when the call was made
    field_path,      \* get_field_or_none: argument
    other_path,      \* get_field_or_none: argument of a second call
    other_ret,       \* get_field_or_none: result of the second call
    files,           \* load: the documents on disk, by name, with their _BASE_
    opened,          \* load: paths handed to open(), in order, each tagged
                     \*       with whether it came out of reroute_config_path
    rerouted,        \* load: arguments reroute_config_path was called with
    stack            \* load: paths still to be loaded (pending recursion)

vars == <<pc, cfg, original_cfg, new_world_size, frozen, methods, idx, calls, ref_seen,
          err, ret, table, entry, field_path, other_path, other_ret, files,
          opened, rerouted, stack>>

scaleVars == <<new_world_size, frozen, methods, idx, calls, ref_seen, entry>>
pathVars == <<field_path, other_path, other_ret>>
loadVars == <<files, opened, rerouted, stack>>

(***************************************************************************)
(* Bounds                                                                  *)
(***************************************************************************)
MaxDepth == 2
MaxVal == 1
MaxSegs == 3
MaxMethods == 2
MaxWorld == 2
MaxOpens == 3
MaxLR == 2

(***************************************************************************)
(* Characters and strings                                                  *)
(***************************************************************************)
Dot == 46

KA == <<65>>
KADash == <<65, 45>>
KB == <<66>>

\* Python's str < str: lexicographic on code points
StrLess(a, b) ==
    \E i \in 1..(Len(a) + 1) :
        /\ i <= Len(b)
        /\ \A j \in 1..(i - 1) : a[j] = b[j]
        /\ (i > Len(a) \/ a[i] < b[i])

\* Python's list < list on lists of strings
SegLess(a, b) ==
    \E i \in 1..(Len(a) + 1) :
        /\ i <= Len(b)
        /\ \A j \in 1..(i - 1) : a[j] = b[j]
        /\ (i > Len(a) \/ StrLess(a[i], b[i]))

RECURSIVE SortedKeys(_)
SortedKeys(S) ==
    IF S = {} THEN <<>>
    ELSE LET m == CHOOSE x \in S : \A y \in S \ {x} : StrLess(x, y)
         IN  <<m>> \o SortedKeys(S \ {m})

\* "{}.{}".format(key, sub_key)
DotJoin(key, sub_key) == key \o <<Dot>> \o sub_key

RECURSIVE JoinSegs(_)
JoinSegs(segs) ==
    IF Len(segs) = 1 THEN segs[1]
    ELSE DotJoin(segs[1], JoinSegs(Tail(segs)))

\* str.split(".")
RECURSIVE Split(_)
Split(s) ==
    IF \A i \in 1..Len(s) : s[i] # Dot THEN <<s>>
    ELSE LET p == CHOOSE i \in 1..Len(s) :
                      s[i] = Dot /\ \A j \in 1..(i - 1) : s[j] # Dot
         IN  <<SubSeq(s, 1, p - 1)>> \o Split(SubSeq(s, p + 1, Len(s)))

(***************************************************************************)
(* Values and config nodes                                                 *)
(***************************************************************************)
NoneV == [t |-> "none", n |-> 0, l |-> <<>>]
IntV(n) == [t |-> "int", n |-> n, l |-> <<>>]
ListV(l) == [t |-> "list", n |-> 0, l |-> l]

EmptyNode == [k \in {} |-> NoneV]
Leaf(v) == [isNode |-> FALSE, val |-> v, kids |-> EmptyNode]
Node(f) == [isNode |-> TRUE, val |-> NoneV, kids |-> f]

\* Python's None, as returned by a call
PyNone == Leaf(NoneV)

\* Python's != on leaf values
PyNe(a, b) == a # b

Values == {NoneV} \cup {IntV(n) : n \in 0..MaxVal}

TopKeys == {KA, KADash}
InnerKeys == {KB}

RECURSIVE NodeSet(_, _)
NodeSet(keys, d) ==
    LET entries == {Leaf(v) : v \in Values} \cup
                   (IF d > 1 THEN {Node(f) : f \in NodeSet(InnerKeys, d - 1)}
                    ELSE {})
    IN  UNION {[D -> entries] : D \in SUBSET keys}

Trees == NodeSet(TopKeys, MaxDepth)

(***************************************************************************)
(* get_cfg_diff_table                                                      *)
(***************************************************************************)
IterKeysReversed(obj) ==
    LET s == SortedKeys(DOMAIN obj)
    IN  [i \in 1..Len(s) |-> s[Len(s) + 1 - i]]

\* `for key in sorted(obj.keys())`
IterKeys(obj) == SortedKeys(DOMAIN obj)

RECURSIVE _find_all_keys(_)
RECURSIVE FindKeysFrom(_, _)
FindKeysFrom(obj, ks) ==
    IF ks = <<>> THEN <<>>
    ELSE LET key == Head(ks)
             value == obj[key]
             here == IF value.isNode
                     THEN LET sub == _find_all_keys(value.kids)
                          IN  [j \in 1..Len(sub) |-> DotJoin(key, sub[j])]
                     ELSE <<key>>
         IN  here \o FindKeysFrom(obj, Tail(ks))

_find_all_keys(obj) == FindKeysFrom(obj, IterKeys(obj))

RECURSIVE Navigate(_, _)
Navigate(entry_, segs) ==
    IF segs = <<>> THEN entry_
    ELSE Navigate(entry_.kids[Head(segs)], Tail(segs))

_get_value(obj, full_key) == Navigate(Node(obj), Split(full_key)).val

\* whether `obj = obj[k]` of _get_value finds every k (KeyError otherwise)
RECURSIVE CanNavigate(_, _)
CanNavigate(entry_, segs) ==
    \/ segs = <<>>
    \/ /\ entry_.isNode
       /\ Head(segs) \in DOMAIN entry_.kids
       /\ CanNavigate(entry_.kids[Head(segs)], Tail(segs))

SameKeysByLength(all_old_keys, all_new_keys) ==
    Len(all_old_keys) = Len(all_new_keys)

\* `assert all_old_keys == all_new_keys`
SameKeys(all_old_keys, all_new_keys) == all_old_keys = all_new_keys

RECURSIVE DiffRows(_, _, _)
DiffRows(node, original_node, keys) ==
    IF keys = <<>> THEN <<>>
    ELSE LET full_key == Head(keys)
             old_value == _get_value(original_node, full_key)
             new_value == _get_value(node, full_key)
             row == IF PyNe(old_value, new_value)
                    THEN << <<full_key, old_value, new_value>> >>
                    ELSE <<>>
         IN  row \o DiffRows(node, original_node, Tail(keys))

get_cfg_diff_table(node, original_node) ==
    LET all_old_keys == _find_all_keys(original_node)
        all_new_keys == _find_all_keys(node)
    IN  IF ~SameKeys(all_old_keys, all_new_keys)
        THEN [err |-> "AssertionError(keys)", table |-> <<>>]
        ELSE IF \E j \in 1..Len(all_new_keys) :
                   \/ ~CanNavigate(Node(original_node), Split(all_new_keys[j]))
                   \/ ~CanNavigate(Node(node), Split(all_new_keys[j]))
        THEN [err |-> "KeyError(path)", table |-> <<>>]
        ELSE [err |-> "none",
              table |-> DiffRows(node, original_node, all_new_keys)]

(***************************************************************************)
(* CfgNode.as_flattened_dict                                               *)
(***************************************************************************)
RECURSIVE _as_flattened_dict(_, _)
_as_flattened_dict(obj, prefix) ==
    LET KeyPath(key) == IF prefix # <<>> THEN DotJoin(prefix, key) ELSE key
        Sub(key) == IF obj[key].isNode
                    THEN _as_flattened_dict(obj[key].kids, KeyPath(key))
                    ELSE [p \in {KeyPath(key)} |-> obj[key].val]
        paths == UNION {DOMAIN Sub(key) : key \in DOMAIN obj}
    IN  [p \in paths |->
            LET key == CHOOSE k \in DOMAIN obj : p \in DOMAIN Sub(k)
            IN  Sub(key)[p]]

as_flattened_dict(obj) == _as_flattened_dict(obj, <<>>)

Range(s) == {s[j] : j \in 1..Len(s)}
FlatKeys(c) == DOMAIN as_flattened_dict(c.node)

(***************************************************************************)
(* Diff calls on arbitrary pairs of trees                                  *)
(***************************************************************************)
Idle == [immutable |-> FALSE, node |-> EmptyNode]
NoTable == [made |-> FALSE, rows |-> <<>>]

InitDiff ==
    /\ pc = "diff"
    /\ \E a \in Trees, b \in Trees :
          /\ cfg = [immutable |-> FALSE, node |-> a]
          /\ original_cfg = [immutable |-> FALSE, node |-> b]
    /\ new_world_size = 0 /\ frozen = FALSE /\ methods = <<>> /\ idx = 0
    /\ calls = <<>> /\ ref_seen = <<>> /\ err = "none" /\ ret = <<>>
    /\ table = NoTable
    /\ entry = Idle
    /\ field_path = <<>> /\ other_path = <<>> /\ other_ret = <<>>
    /\ files = <<>> /\ opened = <<>> /\ rerouted = <<>> /\ stack = <<>>

DiffCall ==
    /\ pc = "diff"
    /\ LET r == get_cfg_diff_table(cfg.node, original_cfg.node)
       IN  /\ err' = r.err
           /\ table' = [made |-> r.err = "none", rows |-> r.table]
           /\ pc' = IF r.err = "none" THEN "done" ELSE "raised"
    /\ UNCHANGED <<cfg, original_cfg, ret>>
    /\ UNCHANGED scaleVars /\ UNCHANGED pathVars /\ UNCHANGED loadVars

NextDiff == DiffCall
SpecDiff == InitDiff /\ [][NextDiff]_vars

(***************************************************************************)
(* auto_scale_world_size                                                   *)
(***************************************************************************)
SOLVER == <<83, 79, 76, 86, 69, 82>>
REFERENCE_WORLD_SIZE ==
    <<82, 69, 70, 69, 82, 69, 78, 67, 69, 95, 87, 79, 82, 76, 68, 95,
      83, 73, 90, 69>>
AUTO_SCALING_METHODS ==
    <<65, 85, 84, 79, 95, 83, 67, 65, 76, 73, 78, 71, 95, 77, 69, 84,
      72, 79, 68, 83>>
BASE_LR == <<66, 65, 83, 69, 95, 76, 82>>
MAX_ITER == <<77, 65, 88, 95, 73, 84, 69, 82>>
EXTRA == <<69, 88, 84, 82, 65>>

SolverCfg(ref, names, lr, is_frozen) ==
    [immutable |-> is_frozen,
     node |-> (SOLVER :> Node(
                  (REFERENCE_WORLD_SIZE :> Leaf(IntV(ref))) @@
                  (AUTO_SCALING_METHODS :> Leaf(ListV(names))) @@
                  (BASE_LR :> Leaf(IntV(lr))) @@
                  (MAX_ITER :> Leaf(IntV(12)))))]

HasSolver(c, key) == key \in DOMAIN c.node[SOLVER].kids
GetSolver(c, key) == c.node[SOLVER].kids[key].val
\* cfg.SOLVER.<key> = v  (on a cfg that is not frozen)
SetSolver(c, key, v) ==
    [c EXCEPT !.node[SOLVER].kids =
        [k \in (DOMAIN @) \cup {key} |-> IF k = key THEN Leaf(v) ELSE @[k]]]
DelSolver(c, key) ==
    [c EXCEPT !.node[SOLVER].kids = [k \in (DOMAIN @) \ {key} |-> @[k]]]

\* CfgNode.clone / defrost / freeze / is_frozen of the base class
clone(c) == c
keep_frozen(c) == c
defrost(c) == [c EXCEPT !.immutable = FALSE]
freeze(c) == [c EXCEPT !.immutable = TRUE]
is_frozen(c) == c.immutable

\* CONFIG_SCALING_METHOD_REGISTRY and the methods registered in it
Registered ==
    {"scale_lr", "scale_iter", "set_ref", "add_key", "del_key", "freeze",
     "raise"}
MethodNames == Registered \cup {"unknown"}

Raise(c, e) == [c |-> c, err |-> e]
Ok(c) == [c |-> c, err |-> "none"]

\* a registered method called with (cfg, new_world_size)
ScalingMethod(name, c, N) ==
    LET old == GetSolver(c, REFERENCE_WORLD_SIZE).n
        Mutate(r) == IF is_frozen(c) THEN Raise(c, "AttributeError(frozen)")
                     ELSE Ok(r)
    IN  CASE name = "scale_lr" ->
               Mutate(SetSolver(c, BASE_LR,
                        IntV((GetSolver(c, BASE_LR).n * N) \div old)))
          [] name = "scale_iter" ->
               IF ~HasSolver(c, MAX_ITER) THEN Raise(c, "AttributeError(key)")
               ELSE Mutate(SetSolver(c, MAX_ITER,
                        IntV((GetSolver(c, MAX_ITER).n * old) \div N)))
          [] name = "set_ref" ->
               Mutate(SetSolver(c, REFERENCE_WORLD_SIZE, IntV(old + 1)))
          [] name = "add_key" -> Mutate(SetSolver(c, EXTRA, IntV(0)))
          [] name = "del_key" ->
               IF ~HasSolver(c, MAX_ITER) THEN Raise(c, "KeyError(key)")
               ELSE Mutate(DelSolver(c, MAX_ITER))
          [] name = "freeze" -> Ok(freeze(c))
          [] OTHER -> Raise(c, "StrategyError")

RECURSIVE MethodLists(_)
MethodLists(n) ==
    IF n = 0 THEN {<<>>}
    ELSE MethodLists(n - 1) \cup
         {Append(l, m) : l \in {q \in MethodLists(n - 1) : Len(q) = n - 1},
                         m \in MethodNames}

InitScale ==
    /\ pc = "entry"
    /\ \E ref \in 0..MaxWorld, names \in MethodLists(MaxMethods),
          lr \in 1..MaxLR, f \in BOOLEAN :
          cfg = SolverCfg(ref, names, lr, f)
    /\ new_world_size \in 1..MaxWorld
    /\ entry = cfg
    /\ original_cfg = Idle
    /\ frozen = FALSE /\ methods = <<>> /\ idx = 0
    /\ calls = <<>> /\ ref_seen = <<>> /\ err = "none"
    /\ ret = PyNone /\ other_ret = PyNone
    /\ table = NoTable
    /\ field_path = <<>> /\ other_path = <<>>
    /\ files = <<>> /\ opened = <<>> /\ rerouted = <<>> /\ stack = <<>>

NoScalingOnlyIfEqual(old_world_size, N) == old_world_size = N

\* line 199: `old_world_size == 0 or old_world_size == new_world_size`
NoScaling(old_world_size, N) == old_world_size = 0 \/ old_world_size = N

\* lines 198-206: the early return, or the snapshot, defrost and the
\* assertion that the method list is not empty
Enter ==
    /\ pc = "entry"
    /\ LET old_world_size == GetSolver(cfg, REFERENCE_WORLD_SIZE).n
           names == GetSolver(cfg, AUTO_SCALING_METHODS).l
       IN  IF NoScaling(old_world_size, new_world_size)
           THEN /\ ret' = cfg
                /\ pc' = "done"
                /\ UNCHANGED <<cfg, original_cfg, frozen, methods, idx, err>>
           ELSE /\ original_cfg' = clone(cfg)
                /\ frozen' = is_frozen(clone(cfg))
                /\ cfg' = defrost(cfg)
                /\ IF Len(names) > 0
                   THEN /\ pc' = "loop" /\ methods' = names /\ idx' = 1
                        /\ UNCHANGED err
                   ELSE /\ pc' = "raised" /\ err' = "AssertionError(methods)"
                        /\ UNCHANGED <<methods, idx>>
                /\ UNCHANGED ret
    /\ UNCHANGED <<new_world_size, calls, ref_seen, entry, table>>
    /\ UNCHANGED pathVars /\ UNCHANGED loadVars

NextMethodReversed(names, i) == names[Len(names) + 1 - i]

\* the element the for loop of line 207 yields at position i
NextMethod(names, i) == names[i]

\* lines 207-209: one iteration of the loop
LoopStep ==
    /\ pc = "loop" /\ idx <= Len(methods)
    /\ LET scaling_method == NextMethod(methods, idx)
       IN  IF scaling_method \notin Registered
           THEN /\ pc' = "raised" /\ err' = "KeyError(registry)"
                /\ UNCHANGED <<cfg, calls, ref_seen, idx>>
           ELSE LET r == ScalingMethod(scaling_method, cfg, new_world_size)
                IN  /\ calls' = Append(calls, <<scaling_method, new_world_size>>)
                    /\ cfg' = r.c
                    /\ ref_seen' = Append(ref_seen,
                                      GetSolver(r.c, REFERENCE_WORLD_SIZE).n)
                    /\ IF r.err = "none"
                       THEN /\ idx' = idx + 1 /\ UNCHANGED <<pc, err>>
                       ELSE /\ pc' = "raised" /\ err' = r.err
                            /\ UNCHANGED idx
    /\ UNCHANGED <<original_cfg, new_world_size, frozen, methods, entry, ret,
                   table>>
    /\ UNCHANGED pathVars /\ UNCHANGED loadVars

\* lines 211-213: `assert cfg.SOLVER.REFERENCE_WORLD_SIZE ==
\* cfg.SOLVER.REFERENCE_WORLD_SIZE`
ReferenceUnchanged(c, old_world_size) ==
    GetSolver(c, REFERENCE_WORLD_SIZE) = GetSolver(c, REFERENCE_WORLD_SIZE)

KeepReference(c, N) == c

\* line 214
SetReference(c, N) == SetSolver(c, REFERENCE_WORLD_SIZE, IntV(N))

NeverRefreeze(c, was_frozen) == c

\* lines 216-217
Refreeze(c, was_frozen) == IF was_frozen THEN freeze(c) ELSE c

\* lines 211-217: after the loop
Finish ==
    /\ pc = "loop" /\ idx > Len(methods)
    /\ IF ~ReferenceUnchanged(cfg, GetSolver(original_cfg, REFERENCE_WORLD_SIZE).n)
       THEN /\ pc' = "raised" /\ err' = "AssertionError(reference)"
            /\ UNCHANGED cfg
       ELSE IF is_frozen(cfg)
       THEN /\ pc' = "raised" /\ err' = "AttributeError(frozen)"
            /\ UNCHANGED cfg
       ELSE /\ cfg' = Refreeze(SetReference(cfg, new_world_size), frozen)
            /\ pc' = "diff"
            /\ UNCHANGED err
    /\ UNCHANGED <<original_cfg, ret, table>>
    /\ UNCHANGED scaleVars /\ UNCHANGED pathVars /\ UNCHANGED loadVars

\* line 219 is DiffCall, on (cfg, original_cfg)
NextScale == Enter \/ LoopStep \/ Finish \/ DiffCall
SpecScale == InitScale /\ [][NextScale]_vars

\* diffs of arbitrary pairs of trees together with the diffs auto_scale makes
InitScaleOrDiff == InitScale \/ InitDiff
SpecScaleAndDiff == InitScaleOrDiff /\ [][NextScale]_vars

(***************************************************************************)
(* Properties of auto_scale_world_size                                     *)
(***************************************************************************)
EntryRef == entry.node[SOLVER].kids[REFERENCE_WORLD_SIZE].val.n
EntryNames == entry.node[SOLVER].kids[AUTO_SCALING_METHODS].val.l
CfgRef == cfg.node[SOLVER].kids[REFERENCE_WORLD_SIZE].val

OnScalingPath == entry # Idle /\ EntryRef # 0 /\ EntryRef # new_world_size
OnNoOpPath == entry # Idle /\ (EntryRef = 0 \/ EntryRef = new_world_size)

\* the driver is past line 214
ReferenceOverwritten ==
    pc \in {"diff", "done"} \/ err = "AssertionError(keys)"

ExpectedCalls == [j \in 1..Len(EntryNames) |-> <<EntryNames[j], new_world_size>>]

IsPrefix(a, b) == Len(a) <= Len(b) /\ a = SubSeq(b, 1, Len(a))

\* the entry config, unfrozen, after the listed methods ran in order
RECURSIVE ApplyAll(_, _, _)
ApplyAll(c, names, N) ==
    IF names = <<>> THEN c
    ELSE ApplyAll(ScalingMethod(Head(names), c, N).c, Tail(names), N)

EntryUnfrozen == [entry EXCEPT !.immutable = FALSE]

\* C1: on the scaling path the listed methods are invoked in the listed
\* order, each entry once, each with (cfg, N), and all of them before the
\* reference world size is overwritten with N.
C1_InvokedInOrder ==
    OnScalingPath =>
        /\ IsPrefix(calls, ExpectedCalls)
        /\ ReferenceOverwritten => calls = ExpectedCalls
        /\ (pc = "loop" /\ calls = <<>>) => CfgRef = IntV(EntryRef)
        /\ (pc = "loop" /\ calls # <<>>) => CfgRef = IntV(ref_seen[Len(ref_seen)])

C1_Witness ==
    /\ OnScalingPath /\ pc = "diff"
    /\ Len(calls) = 2 /\ calls[1][1] # calls[2][1]
    /\ CfgRef = IntV(new_world_size)

\* C2: when the reference world size is 0 or N, no method is invoked, the
\* input cfg is returned, and its fields and frozen flag are unchanged.
C2_NoOp ==
    OnNoOpPath =>
        /\ calls = <<>>
        /\ cfg = entry
        /\ pc \in {"entry", "done"}
        /\ pc = "done" => ret = entry

C2_Witness ==
    /\ OnNoOpPath /\ pc = "done" /\ EntryRef = 0
    /\ EntryNames # <<>> /\ entry.immutable

\* C3: when the call completes on the scaling path, the reference world
\* size is N and every other field has the value the listed methods, run in
\* order on the entry config, gave it.
C3_ScaledResult ==
    (OnScalingPath /\ pc = "done") =>
        LET e == ApplyAll(EntryUnfrozen, EntryNames, new_world_size)
            now == cfg.node[SOLVER].kids
            exp == e.node[SOLVER].kids
        IN  /\ DOMAIN cfg.node = {SOLVER}
            /\ now[REFERENCE_WORLD_SIZE] = Leaf(IntV(new_world_size))
            /\ DOMAIN now = DOMAIN exp
            /\ \A k \in DOMAIN now \ {REFERENCE_WORLD_SIZE} : now[k] = exp[k]

C3_Witness ==
    /\ OnScalingPath /\ pc = "done"
    /\ EntryRef = 1 /\ new_world_size = 2 /\ EntryNames = <<"scale_lr">>
    /\ cfg.node[SOLVER].kids[BASE_LR] =
          Leaf(IntV(2 * entry.node[SOLVER].kids[BASE_LR].val.n))
    /\ CfgRef = IntV(2)

\* C4: when the call returns normally on the scaling path, cfg is frozen
\* exactly if it was frozen when the call was made.
C4_FrozenRestored ==
    (OnScalingPath /\ pc \in {"diff", "done"}) =>
        cfg.immutable = entry.immutable

C4_Witness ==
    /\ OnScalingPath /\ pc = "done"
    /\ entry.immutable /\ cfg.immutable /\ calls # <<>>

\* C9: if an invoked method changed the reference world size, the call
\* fails on the assertion after the loop and never gets to overwrite the
\* field or to complete.
C9_AsStated ==
    (OnScalingPath /\ ReferenceOverwritten) =>
        \A j \in 1..Len(ref_seen) : ref_seen[j] = EntryRef

\* C10 (as stated): when the call ends with an error on the scaling path,
\* cfg has the field values and the frozen flag it had at entry.
C10_AsStated ==
    (OnScalingPath /\ pc = "raised") => cfg = entry

\* C10 (amended): when the call ends with an error on the scaling path, cfg
\* is not rolled back; only the snapshot clone holds the entry state.  cfg
\* is the entry config unfrozen and changed by every method invoked before
\* the error (none of them for an empty list or an unregistered first
\* name), and for the key mismatch of the diff it is the fully scaled
\* config with reference world size N and the frozen flag of the entry.
C10_NoRollback ==
    (OnScalingPath /\ pc = "raised") =>
        LET ran == [j \in 1..Len(calls) |-> calls[j][1]]
            sofar == ApplyAll(EntryUnfrozen, ran, new_world_size)
        IN  /\ original_cfg = entry
            /\ err # "none"
            /\ err = "AssertionError(methods)" =>
                  (EntryNames = <<>> /\ cfg = EntryUnfrozen)
            /\ err = "KeyError(registry)" =>
                  (Len(calls) < Len(EntryNames) /\ cfg = sofar
                   /\ EntryNames[Len(calls) + 1] \notin Registered)
            /\ err = "AssertionError(keys)" =>
                  /\ ran = EntryNames
                  /\ cfg.immutable = entry.immutable
                  /\ cfg.node = [sofar.node EXCEPT
                        ![SOLVER].kids[REFERENCE_WORLD_SIZE] =
                            Leaf(IntV(new_world_size))]
            /\ err \notin {"AssertionError(methods)", "KeyError(registry)",
                           "AssertionError(keys)"} => cfg = sofar

C10_Witness ==
    /\ OnScalingPath /\ pc = "raised" /\ err = "KeyError(registry)"
    /\ entry.immutable /\ ~cfg.immutable
    /\ cfg.node # entry.node

(***************************************************************************)
(* CfgNode.get_field_or_none                                               *)
(***************************************************************************)
\* the loop over path_to_last: [ok, at]
RECURSIVE WalkPathToLast(_, _)
WalkPathToLast(cfg_node, path_to_last) ==
    IF path_to_last = <<>> THEN [ok |-> TRUE, at |-> cfg_node]
    ELSE LET attribute == Head(path_to_last)
         IN  IF ~cfg_node.isNode \/ attribute \notin DOMAIN cfg_node.kids
             THEN [ok |-> FALSE, at |-> cfg_node]
             ELSE WalkPathToLast(cfg_node.kids[attribute], Tail(path_to_last))

LastOrNode(cfg_node, last_attribute) ==
    IF cfg_node.isNode /\ last_attribute \in DOMAIN cfg_node.kids
    THEN cfg_node.kids[last_attribute]
    ELSE cfg_node

\* the final conditional expression
LastOrNone(cfg_node, last_attribute) ==
    IF cfg_node.isNode /\ last_attribute \in DOMAIN cfg_node.kids
    THEN cfg_node.kids[last_attribute]
    ELSE PyNone

get_field_or_none(self, path) ==
    LET attributes == Split(path)
        path_to_last == SubSeq(attributes, 1, Len(attributes) - 1)
        last_attribute == attributes[Len(attributes)]
        w == WalkPathToLast(Node(self), path_to_last)
    IN  IF ~w.ok THEN PyNone ELSE LastOrNone(w.at, last_attribute)

RECURSIVE SegSeqs(_)
SegSeqs(n) ==
    IF n = 1 THEN {<<k>> : k \in TopKeys}
    ELSE SegSeqs(n - 1) \cup
         {Append(s, k) : s \in {q \in SegSeqs(n - 1) : Len(q) = n - 1},
                         k \in InnerKeys}

FieldPaths == {JoinSegs(s) : s \in SegSeqs(MaxSegs)}

InitPath ==
    /\ pc = "get_field"
    /\ \E a \in Trees : cfg = [immutable |-> FALSE, node |-> a]
    /\ field_path \in FieldPaths
    /\ other_path \in FieldPaths
    /\ original_cfg = Idle
    /\ new_world_size = 0 /\ frozen = FALSE /\ methods = <<>> /\ idx = 0
    /\ calls = <<>> /\ ref_seen = <<>> /\ err = "none"
    /\ ret = PyNone /\ other_ret = PyNone
    /\ table = NoTable
    /\ entry = Idle
    /\ files = <<>> /\ opened = <<>> /\ rerouted = <<>> /\ stack = <<>>

GetFieldCalls ==
    /\ pc = "get_field"
    /\ ret' = get_field_or_none(cfg.node, field_path)
    /\ other_ret' = get_field_or_none(cfg.node, other_path)
    /\ pc' = "done"
    /\ UNCHANGED <<cfg, original_cfg, err, table, field_path, other_path>>
    /\ UNCHANGED scaleVars /\ UNCHANGED loadVars

NextPath == GetFieldCalls
SpecPath == InitPath /\ [][NextPath]_vars

\* every path of the tree that names an entry (a leaf or a node), as segments
RECURSIVE EntryPaths(_)
EntryPaths(obj) ==
    UNION {{<<k>>} \cup (IF obj[k].isNode
                         THEN {<<k>> \o s : s \in EntryPaths(obj[k].kids)}
                         ELSE {}) : k \in DOMAIN obj}

Present(c, path) == Split(path) \in EntryPaths(c.node)

HoldsNone(c, path) ==
    /\ path \in FlatKeys(c)
    /\ as_flattened_dict(c.node)[path] = NoneV

\* C5 (as stated): the result for a path that is absent (a segment missing,
\* or an intermediate segment not a node) differs from the result for every
\* path that is present, a present None included.
C5_AsStated ==
    (pc = "done" /\ ~Present(cfg, field_path) /\ Present(cfg, other_path))
        => ret # other_ret

\* C5 (amended): get_field_or_none returns None for an absent path and the
\* stored entry for a present one; the absent result differs from the result
\* for every present path that holds anything but None (0 and nodes
\* included), and equals the result for a present path that holds None.
C5_AbsentIsNone ==
    pc = "done" =>
        /\ ~Present(cfg, field_path) => ret = PyNone
        /\ (Present(cfg, other_path) /\ other_path \in FlatKeys(cfg))
              => other_ret = Leaf(as_flattened_dict(cfg.node)[other_path])
        /\ (Present(cfg, other_path) /\ other_path \notin FlatKeys(cfg))
              => other_ret.isNode
        /\ (~Present(cfg, field_path) /\ Present(cfg, other_path))
              => (ret = other_ret <=> HoldsNone(cfg, other_path))

C5_Witness ==
    /\ pc = "done"
    /\ ~Present(cfg, field_path) /\ Len(Split(field_path)) = 3
    /\ Split(field_path)[1] \in DOMAIN cfg.node
    /\ ~cfg.node[Split(field_path)[1]].isNode
    /\ HoldsNone(cfg, other_path)
    /\ ret = other_ret

(***************************************************************************)
(* CfgNode.merge_from_file / load_yaml_with_base with rerouted paths       *)
(***************************************************************************)
\* A path is [scheme, name]: "d2go" is d2go://name, "abs" is /cfg/name,
\* "rel" is name, relative to the including file.  All documents live in
\* the directory /cfg.
FileNames == {"a.yaml", "b.yaml"}
Path(scheme, name) == [scheme |-> scheme, name |-> name]
NominalPaths == {Path(sc, n) : sc \in {"d2go", "abs", "rel"}, n \in FileNames}

\* d2go.utils.helper.reroute_config_path on one path
reroute_config_path(path) ==
    IF path.scheme = "d2go" THEN Path("abs", path.name) ELSE path

\* os.path.join(os.path.dirname(filename), base) of the base class, for a
\* base that does not start with "/"
ResolveBase(base) ==
    IF base.scheme = "abs" THEN base
    ELSE IF base.scheme = "rel" THEN Path("abs", base.name)
    ELSE Path("missing", base.name)

Exists(path) == path.scheme = "abs" /\ path.name \in DOMAIN files

\* the _BASE_ value of a document: none, one path, or a list of paths
BaseValues ==
    {[kind |-> "none", paths |-> <<>>]} \cup
    {[kind |-> "single", paths |-> <<p>>] : p \in NominalPaths} \cup
    {[kind |-> "list", paths |-> <<p, q>>] :
        p \in {Path("d2go", "a.yaml")}, q \in {Path("d2go", "b.yaml"), Path("rel", "b.yaml")}}

Tagged(path, via) == [path |-> path, rerouted |-> via]

InitLoad ==
    /\ pc = "load_entry"
    /\ files \in [FileNames -> BaseValues]
    /\ opened = <<>> /\ rerouted = <<>> /\ stack = <<>>
    /\ cfg = Idle /\ original_cfg = Idle
    /\ new_world_size = 0 /\ frozen = FALSE /\ methods = <<>> /\ idx = 0
    /\ calls = <<>> /\ ref_seen = <<>> /\ err = "none"
    /\ ret = PyNone /\ other_ret = PyNone
    /\ table = NoTable
    /\ entry = Idle
    /\ field_path = <<>> /\ other_path = <<>>

\* lines 70-73: merge_from_file reroutes cfg_filename and loads it
MergeFromFile ==
    /\ pc = "load_entry"
    /\ \E cfg_filename \in NominalPaths :
          /\ rerouted' = Append(rerouted, cfg_filename)
          /\ stack' = <<Tagged(reroute_config_path(cfg_filename), TRUE)>>
    /\ pc' = "loading"
    /\ UNCHANGED <<cfg, original_cfg, err, ret, table, files, opened>>
    /\ UNCHANGED scaleVars /\ UNCHANGED pathVars

\* lines 75-78: load_yaml_with_base loads filename as given
LoadYamlWithBase ==
    /\ pc = "load_entry"
    /\ \E filename \in NominalPaths :
          stack' = <<Tagged(filename, FALSE)>>
    /\ pc' = "loading"
    /\ UNCHANGED <<cfg, original_cfg, err, ret, table, files, opened, rerouted>>
    /\ UNCHANGED scaleVars /\ UNCHANGED pathVars

\* lines 159-163: the patched yaml.safe_load, `cfg[BASE_KEY] =
\* reroute_config_path(cfg[BASE_KEY])`, applied to the value as a whole.
\* Outcomes: [err, bases], bases being the paths the base class goes on to
\* load.  reroute_config_path is defined on one path; handed a list it either
\* raises or hands the list back as it is.
MockSafeLoad(base) ==
    IF base.kind = "none" THEN {[err |-> "none", args |-> <<>>, bases |-> <<>>]}
    ELSE IF base.kind = "single"
    THEN {[err |-> "none", args |-> base.paths,
           bases |-> <<Tagged(ResolveBase(reroute_config_path(base.paths[1])),
                              TRUE)>>]}
    ELSE {[err |-> "AttributeError(list)", args |-> <<>>, bases |-> <<>>],
          [err |-> "none", args |-> <<>>,
           bases |-> [j \in 1..Len(base.paths) |->
                        Tagged(ResolveBase(base.paths[j]), FALSE)]]}

\* one document: open it, parse it through the patched loader, and recurse
\* into its bases in listed order before anything else
LoadStep ==
    /\ pc = "loading" /\ stack # <<>>
    /\ LET top == Head(stack)
       IN  IF ~Exists(top.path)
           THEN /\ opened' = Append(opened, top)
                /\ pc' = "raised" /\ err' = "FileNotFoundError"
                /\ UNCHANGED <<rerouted, stack>>
           ELSE IF Len(opened) >= MaxOpens
           THEN /\ pc' = "raised" /\ err' = "RecursionError"
                /\ UNCHANGED <<opened, rerouted, stack>>
           ELSE \E r \in MockSafeLoad(files[top.path.name]) :
                  /\ opened' = Append(opened, top)
                  /\ rerouted' = rerouted \o r.args
                  /\ IF r.err # "none"
                     THEN /\ pc' = "raised" /\ err' = r.err
                          /\ UNCHANGED stack
                     ELSE /\ stack' = r.bases \o Tail(stack)
                          /\ pc' = IF stack' = <<>> THEN "done" ELSE "loading"
                          /\ UNCHANGED err
    /\ UNCHANGED <<cfg, original_cfg, ret, table, files>>
    /\ UNCHANGED scaleVars /\ UNCHANGED pathVars

NextLoad == MergeFromFile \/ LoadYamlWithBase \/ LoadStep
SpecLoad == InitLoad /\ [][NextLoad]_vars

\* C8: during a load through merge_from_file or load_yaml_with_base, every
\* path opened for reading (the top-level path and every base path, given
\* singly or in a list) went through reroute_config_path before it was
\* opened.
C8_AsStated == \A j \in 1..Len(opened) : opened[j].rerouted

(***************************************************************************)
(* Properties of get_cfg_diff_table                                        *)
(***************************************************************************)
RowKeys(rows) == [j \in 1..Len(rows) |-> rows[j][1]]

\* the rows are exactly the leaf key paths whose values differ, each once,
\* with the old and the new value
RowsExact(rows, new, old) ==
    LET fn == as_flattened_dict(new.node)
        fo == as_flattened_dict(old.node)
    IN  /\ Range(RowKeys(rows)) = {k \in DOMAIN fn : fn[k] # fo[k]}
        /\ \A j, k \in 1..Len(rows) : rows[j][1] = rows[k][1] => j = k
        /\ \A j \in 1..Len(rows) :
              rows[j] = <<rows[j][1], fo[rows[j][1]], fn[rows[j][1]]>>

RowsSwapped(rows, new, old) ==
    LET back == get_cfg_diff_table(old.node, new.node)
    IN  /\ back.err = "none"
        /\ Len(back.table) = Len(rows)
        /\ \A j \in 1..Len(rows) :
              back.table[j] = <<rows[j][1], rows[j][3], rows[j][2]>>

\* order of the full dotted strings
RowsStringOrdered(rows) ==
    \A j, k \in 1..Len(rows) : j < k => StrLess(rows[j][1], rows[k][1])

\* order of the key paths taken segment by segment
RowsSegmentOrdered(rows) ==
    \A j, k \in 1..Len(rows) :
        j < k => SegLess(Split(rows[j][1]), Split(rows[k][1]))

NoCharBelowDot(c) ==
    \A k \in FlatKeys(c) : \A j \in 1..Len(k) : k[j] >= Dot

DiffReturned ==
    table.made \/ err \in {"AssertionError(keys)", "KeyError(path)"}

\* C7: the diff fails on its key assertion exactly when the flattened leaf
\* key sets of the two trees differ, and a table is only ever built for two
\* trees with the same leaf key set.
C7_FailsIffKeysDiffer ==
    DiffReturned =>
        /\ err = "AssertionError(keys)" <=>
              FlatKeys(cfg) # FlatKeys(original_cfg)
        /\ table.made <=> FlatKeys(cfg) = FlatKeys(original_cfg)
        /\ table.made <=> pc = "done"

C7_Witness ==
    /\ pc = "raised" /\ err = "AssertionError(keys)"
    /\ Cardinality(FlatKeys(cfg)) = Cardinality(FlatKeys(original_cfg))

====
